---- MODULE Spec2Model ----
(***************************************************************************)
(* A model of sentra (src/index.py): the score aggregator analyze_toxicity *)
(* and the three Flask routes /analyze/text, /analyze/image and            *)
(* /analyze/audio around it.                                               *)
(*                                                                         *)
(* Numbers.  A category score is a probability in [0,1]; the model keeps   *)
(* it as an integer number of thousandths (0.5 is 500).  overall_score is  *)
(* a percentage; the model keeps it in units of 1/600 of a point, the      *)
(* unit in which 100 * (sum / count) is an integer for every count in      *)
(* 1..6 (90.0 is 54000, the cap 100 is 60000).  Arithmetic is exact: the   *)
(* rounding of binary floating point is not modelled.                      *)
(*                                                                         *)
(* Strings are sequences of one-character strings, so that str.strip,      *)
(* str.startswith, str.rsplit and "\n".join are computed, not assumed.     *)
(***************************************************************************)
EXTENDS Integers, Sequences, FiniteSets, TLC

VARIABLES
    detox_model,   \* the classifier loaded at start-up (line 19)
    req,           \* per thread, the request it is serving
    raw_scores,    \* the aggregator on its own: its input,
    agg_result,    \*   what it returned or raised,
    agg_pc,        \*   and whether it has run
    fn_name,       \* an adapter on its own: which one,
    fn_in,         \*   its argument
    fn_out         \*   and what the call ended in

vars == <<detox_model, req, raw_scores, agg_result, agg_pc, fn_name, fn_in, fn_out>>

----------------------------------------------------------------------------
(* Categories and threshold                                                *)

\* src/index.py:22-29, the keys of DETOXIFY_CATEGORIES
DETOXIFY_CATEGORIES ==
    {"toxic", "severe_toxic", "obscene", "threat", "insult", "identity_hate"}

\* lines 1244-1251 with the last key under the name it has in other
\* Detoxify models
FRONTEND_DETOXIFY_CATEGORIES_Renamed ==
    {"toxic", "severe_toxic", "obscene", "threat", "insult", "identity_attack"}

\* src/index.py:1244-1251, the keys of the DETOXIFY_CATEGORIES object of the
\* page's script, which displayResults walks to show a result (line 1111)
FRONTEND_DETOXIFY_CATEGORIES ==
    {"toxic", "severe_toxic", "obscene", "threat", "insult", "identity_hate"}

\* src/index.py:32, TOXICITY_THRESHOLD = 0.5, in thousandths
TOXICITY_THRESHOLD == 500

\* The scores the classifier is let to return for one category, in
\* thousandths: both ends of [0,1], the threshold and its neighbour below.
ScoreGrid == {0, 100, 300, 499, 500, 900, 1000}

\* The empty mapping, the RawScores with no category at all.
EmptyScores == [c \in {} |-> 0]

----------------------------------------------------------------------------
(* analyze_toxicity, src/index.py:54-80, as a function of the raw scores   *)

RECURSIVE SumOver(_, _)
\* overall_score += score over the categories of S (lines 59, 62-65)
SumOver(f, S) ==
    IF S = {} THEN 0
    ELSE LET c == CHOOSE x \in S : TRUE IN f[c] + SumOver(f, S \ {c})

\* max(raw_scores.values()) (line 73); only evaluated on a non-empty mapping
MaxValue(f) ==
    CHOOSE m \in {f[c] : c \in DOMAIN f} : \A c \in DOMAIN f : f[c] <= m

\* Python's min(a, b) (line 77)
Min(a, b) == IF a <= b THEN a ELSE b

\* the threshold test with > in the place of >=
DetectedSetAbove(raw) == {c \in DOMAIN raw : raw[c] > TOXICITY_THRESHOLD}

\* lines 62-64: the categories whose score reaches the threshold
DetectedSet(raw) == {c \in DOMAIN raw : raw[c] >= TOXICITY_THRESHOLD}

\* lines 58, 62-64: detected_categories
DetectedCategories(raw) == [c \in DetectedSet(raw) |-> raw[c]]

\* the largest detected score times 100 in the place of the mean
UncappedScoreMaxDetected(raw) ==
    IF Cardinality(DetectedSet(raw)) > 0
    THEN MaxValue(raw) * 60
    ELSE MaxValue(raw) * 30

\* the fallback taken as the mean of all scores times 100, not as half the
\* largest one
UncappedScoreFallbackMean(raw) ==
    IF Cardinality(DetectedSet(raw)) > 0
    THEN (SumOver(raw, DetectedSet(raw)) * 60) \div Cardinality(DetectedSet(raw))
    ELSE (SumOver(raw, DOMAIN raw) * 60) \div Cardinality(DOMAIN raw)

\* a mean taken over all six categories instead of the detected ones
UncappedScoreAllMean(raw) ==
    IF Cardinality(DetectedSet(raw)) > 0
    THEN (SumOver(raw, DOMAIN raw) * 60) \div Cardinality(DOMAIN raw)
    ELSE MaxValue(raw) * 30

\* the fallback scaled by 100 like the mean, not by 50
UncappedScoreFullMax(raw) ==
    IF Cardinality(DetectedSet(raw)) > 0
    THEN (SumOver(raw, DetectedSet(raw)) * 60) \div Cardinality(DetectedSet(raw))
    ELSE MaxValue(raw) * 60

\* lines 69-73: overall_score before the cap, in units of 1/600;
\* (sum / count) * 100 is sum * 60 \div count, max * 50 is max * 30
UncappedScore(raw) ==
    IF Cardinality(DetectedSet(raw)) > 0
    THEN (SumOver(raw, DetectedSet(raw)) * 60) \div Cardinality(DetectedSet(raw))
    ELSE MaxValue(raw) * 30

\* the sum of the detected scores, neither averaged nor capped
OverallScoreSumNoCap(raw) ==
    IF Cardinality(DetectedSet(raw)) > 0
    THEN SumOver(raw, DetectedSet(raw)) * 60
    ELSE MaxValue(raw) * 30

\* line 77: min(overall_score, 100)
OverallScore(raw) == Min(UncappedScore(raw), 100 * 600)

\* is_toxic only when more than one category is detected
IsToxicSeveral(raw) == Cardinality(DOMAIN DetectedCategories(raw)) > 1

\* line 79: len(detected_categories) > 0
IsToxic(raw) == Cardinality(DOMAIN DetectedCategories(raw)) > 0

\* lines 54-80.  On the empty mapping the loop does nothing, detected_count
\* is 0 and line 73 evaluates max() of an empty sequence, which raises
\* ValueError; the function has no check of its input before that.
AnalyzeScores(raw) ==
    IF DOMAIN raw = {}
    THEN [status |-> "raised", exc |-> "ValueError", max_evaluated |-> TRUE]
    ELSE [status |-> "ok",
          detected_categories |-> DetectedCategories(raw),
          overall_score |-> OverallScore(raw),
          all_scores |-> raw,
          is_toxic |-> IsToxic(raw)]

----------------------------------------------------------------------------
(* Strings as sequences of characters                                      *)

\* the key 'text' (src/index.py:1272, 1275)
S_text ==
    <<"t", "e", "x", "t">>

\* the prefix tested by the image and audio routes (lines 1297, 1328)
S_Error ==
    <<"E", "r", "r", "o", "r">>

\* line 92 and line 1297
NO_TEXT_DETECTED ==
    <<"N", "o", " ", "t", "e", "x", "t", " ", "d", "e", "t", "e", "c", "t",
      "e", "d", " ", "i", "n", " ", "i", "m", "a", "g", "e">>

\* line 94
ERROR_EXTRACTING_PREFIX ==
    <<"E", "r", "r", "o", "r", " ", "e", "x", "t", "r", "a", "c", "t", "i",
      "n", "g", " ", "t", "e", "x", "t", ":", " ">>

\* line 118 and line 1328
COULD_NOT_UNDERSTAND ==
    <<"C", "o", "u", "l", "d", " ", "n", "o", "t", " ", "u", "n", "d", "e",
      "r", "s", "t", "a", "n", "d", " ", "a", "u", "d", "i", "o">>

\* line 120
SPEECH_ERROR_PREFIX ==
    <<"S", "p", "e", "e", "c", "h", " ", "r", "e", "c", "o", "g", "n", "i",
      "t", "i", "o", "n", " ", "e", "r", "r", "o", "r", ":", " ">>

\* line 123
AUDIO_ERROR_PREFIX ==
    <<"A", "u", "d", "i", "o", " ", "p", "r", "o", "c", "e", "s", "s", "i",
      "n", "g", " ", "e", "r", "r", "o", "r", ":", " ">>

\* line 1273
MSG_NoTextProvided ==
    <<"N", "o", " ", "t", "e", "x", "t", " ", "p", "r", "o", "v", "i", "d",
      "e", "d">>

\* line 1277
MSG_TextEmpty ==
    <<"T", "e", "x", "t", " ", "c", "a", "n", "n", "o", "t", " ", "b", "e",
      " ", "e", "m", "p", "t", "y">>

\* line 1283
MSG_TextFailed ==
    <<"T", "e", "x", "t", " ", "a", "n", "a", "l", "y", "s", "i", "s", " ",
      "f", "a", "i", "l", "e", "d", ":", " ">>

\* line 1289
MSG_NoImageFile ==
    <<"N", "o", " ", "i", "m", "a", "g", "e", " ", "f", "i", "l", "e", " ",
      "p", "r", "o", "v", "i", "d", "e", "d">>

\* line 1293
MSG_NoImageSelected ==
    <<"N", "o", " ", "i", "m", "a", "g", "e", " ", "s", "e", "l", "e", "c",
      "t", "e", "d">>

\* line 1311
MSG_ImageFailed ==
    <<"I", "m", "a", "g", "e", " ", "a", "n", "a", "l", "y", "s", "i", "s",
      " ", "f", "a", "i", "l", "e", "d", ":", " ">>

\* line 1317
MSG_NoAudioFile ==
    <<"N", "o", " ", "a", "u", "d", "i", "o", " ", "f", "i", "l", "e", " ",
      "p", "r", "o", "v", "i", "d", "e", "d">>

\* line 1321
MSG_NoAudioSelected ==
    <<"N", "o", " ", "a", "u", "d", "i", "o", " ", "s", "e", "l", "e", "c",
      "t", "e", "d">>

\* line 1324
MSG_InvalidAudioFormat ==
    <<"I", "n", "v", "a", "l", "i", "d", " ", "a", "u", "d", "i", "o", " ",
      "f", "o", "r", "m", "a", "t", ".", " ", "S", "u", "p", "p", "o", "r",
      "t", "e", "d", ":", " ", "W", "A", "V", ",", " ", "M", "P", "3", ",",
      " ", "M", "4", "A", ",", " ", "F", "L", "A", "C", ",", " ", "A", "A",
      "C">>

\* line 1342
MSG_AudioFailed ==
    <<"A", "u", "d", "i", "o", " ", "a", "n", "a", "l", "y", "s", "i", "s",
      " ", "f", "a", "i", "l", "e", "d", ":", " ">>

\* the allow-list of line 99
ALLOWED_EXTENSIONS ==
    { <<"w", "a", "v">>, <<"m", "p", "3">>, <<"m", "4", "a">>,
      <<"f", "l", "a", "c">>, <<"a", "a", "c">> }

\* the characters str.strip() removes that occur in the model
Whitespace == {" ", "\n", "\t"}

UpperLetters ==
    <<"A", "B", "C", "D", "E", "F", "G", "H", "I", "J", "K", "L", "M",
      "N", "O", "P", "Q", "R", "S", "T", "U", "V", "W", "X", "Y", "Z">>

LowerLetters ==
    <<"a", "b", "c", "d", "e", "f", "g", "h", "i", "j", "k", "l", "m",
      "n", "o", "p", "q", "r", "s", "t", "u", "v", "w", "x", "y", "z">>

\* str.lower() on one character
LowerChar(ch) ==
    IF \E i \in 1..Len(UpperLetters) : UpperLetters[i] = ch
    THEN LowerLetters[CHOOSE i \in 1..Len(UpperLetters) : UpperLetters[i] = ch]
    ELSE ch

\* str.lower()
Lower(s) == [i \in 1..Len(s) |-> LowerChar(s[i])]

\* str.strip(): drop leading and trailing whitespace
Strip(s) ==
    LET keep == {i \in 1..Len(s) : s[i] \notin Whitespace} IN
    IF keep = {} THEN <<>>
    ELSE LET lo == CHOOSE i \in keep : \A j \in keep : i <= j
             hi == CHOOSE i \in keep : \A j \in keep : j <= i
         IN SubSeq(s, lo, hi)

\* str.startswith(prefix)
StartsWith(s, prefix) ==
    /\ Len(prefix) <= Len(s)
    /\ SubSeq(s, 1, Len(prefix)) = prefix

\* sub in s, for two strings
Contains(sub, s) ==
    \E i \in 1..(Len(s) - Len(sub) + 1) : SubSeq(s, i, i + Len(sub) - 1) = sub

\* '.' in filename
HasDot(s) == \E i \in 1..Len(s) : s[i] = "."

\* filename.rsplit('.', 1)[1]: what follows the last dot
AfterLastDot(s) ==
    LET last == CHOOSE i \in 1..Len(s) :
                    s[i] = "." /\ \A j \in (i + 1)..Len(s) : s[j] # "."
    IN SubSeq(s, last + 1, Len(s))

RECURSIVE JoinLines(_)
\* "\n".join(results)
JoinLines(lines) ==
    IF Len(lines) = 0 THEN <<>>
    ELSE IF Len(lines) = 1 THEN lines[1]
    ELSE lines[1] \o <<"\n">> \o JoinLines(Tail(lines))

----------------------------------------------------------------------------
(* The adapters                                                            *)

\* lines 97-99 without the lower() of line 99
allowed_audio_file_CaseSensitive(filename) ==
    HasDot(filename) /\ AfterLastDot(filename) \in ALLOWED_EXTENSIONS

\* src/index.py:97-99
allowed_audio_file(filename) ==
    HasDot(filename) /\ Lower(AfterLastDot(filename)) \in ALLOWED_EXTENSIONS

\* how a call of an adapter ends: it returns a string, or an exception
\* leaves it for the caller
Returned(value) == [raised |-> FALSE, value |-> value]
Escaped == [raised |-> TRUE, value |-> <<>>]

\* lines 85-94 with an except clause that only catches what Image.open
\* raises, so that an exception of readtext leaves the function
extract_text_from_image_NarrowExcept(image_data) ==
    IF image_data.kind = "lines"
    THEN IF Len(image_data.lines) > 0
         THEN Returned(JoinLines(image_data.lines))
         ELSE Returned(NO_TEXT_DETECTED)
    ELSE IF image_data.kind = "undecodable"
    THEN Returned(ERROR_EXTRACTING_PREFIX \o image_data.msg)
    ELSE Escaped

\* src/index.py:85-94.  The uploaded bytes are described by what PIL and
\* easyocr make of them: "lines" (readtext returns these lines),
\* "undecodable" (Image.open raises) or "ocr_error" (readtext raises).
\* Both calls are inside the try, and `except Exception` returns.
extract_text_from_image(image_data) ==
    IF image_data.kind = "lines"
    THEN IF Len(image_data.lines) > 0
         THEN Returned(JoinLines(image_data.lines))
         ELSE Returned(NO_TEXT_DETECTED)
    ELSE Returned(ERROR_EXTRACTING_PREFIX \o image_data.msg)

\* lines 101-123 with one temporary file of a fixed name for every call
\* instead of the NamedTemporaryFile of line 108: the recognizer reads what
\* the first request that is extracting audio exported there
speech_to_text_SharedFile(audio_data, original_filename) ==
    LET writers == {t \in DOMAIN req :
                       req[t].pc = "Extracting" /\ req[t].route = "audio"}
        first == CHOOSE t \in writers : \A u \in writers : t <= u
        exported == IF writers = {} THEN audio_data ELSE req[first].input.content
    IN CASE exported.kind = "speech" -> Returned(exported.transcript)
         [] exported.kind = "unintelligible" -> Returned(COULD_NOT_UNDERSTAND)
         [] exported.kind = "request_error" ->
               Returned(SPEECH_ERROR_PREFIX \o exported.msg)
         [] OTHER -> Returned(AUDIO_ERROR_PREFIX \o exported.msg)

\* src/index.py:101-123.  The uploaded bytes are described by what pydub
\* and the recognizer make of them: "speech" (recognize_google returns the
\* transcript), "unintelligible" (UnknownValueError), "request_error"
\* (RequestError) or "undecodable" (from_file, export or record raises).
\* Everything after line 103 is inside the try, and `except Exception`
\* returns.
speech_to_text(audio_data, original_filename) ==
    CASE audio_data.kind = "speech" -> Returned(audio_data.transcript)
      [] audio_data.kind = "unintelligible" -> Returned(COULD_NOT_UNDERSTAND)
      [] audio_data.kind = "request_error" ->
            Returned(SPEECH_ERROR_PREFIX \o audio_data.msg)
      [] OTHER -> Returned(AUDIO_ERROR_PREFIX \o audio_data.msg)

----------------------------------------------------------------------------
(* The classifier                                                          *)

\* the number of classifiers the model is checked with
NumModels == 2

\* what a loaded Detoxify instance may answer for one text: six scores, or
\* an exception out of predict
Profiles ==
    << [status |-> "ok",
        scores |-> [c \in DETOXIFY_CATEGORIES |-> 100]],
       [status |-> "ok",
        scores |-> [c \in DETOXIFY_CATEGORIES |-> IF c = "toxic" THEN 900 ELSE 100]],
       [status |-> "ok",
        scores |-> [c \in DETOXIFY_CATEGORIES |->
                       IF c = "toxic" THEN 1000
                       ELSE IF c = "insult" THEN 500
                       ELSE IF c = "threat" THEN 499 ELSE 300]],
       [status |-> "raised",
        scores |-> [c \in DETOXIFY_CATEGORIES |-> 0]] >>

\* a classifier whose answer for a text changes with the requests that are
\* being answered at the moment of the call
PredictStateful(m, text) ==
    LET busy == Cardinality({t \in DOMAIN req : req[t].pc = "Responding"})
    IN Profiles[((Len(text) + m + busy) % Len(Profiles)) + 1]

\* src/index.py:19 and 51: detox_model.predict(text).  The instance is
\* loaded once and is a fixed function of the text; instance m answers a
\* text with the profile picked by the text's length and m.
Predict(m, text) == Profiles[((Len(text) + m) % Len(Profiles)) + 1]

\* src/index.py:34-47: float32 -> float on every value of the dict; the
\* widening keeps the value
convert_float32_to_float(obj) == [k \in DOMAIN obj |-> obj[k]]

\* src/index.py:49-52
predict_detox(m, text) ==
    LET results == Predict(m, text) IN
    IF results.status = "raised"
    THEN results
    ELSE [status |-> "ok", scores |-> convert_float32_to_float(results.scores)]

\* src/index.py:54-80, with the classifier of line 56
analyze_toxicity(m, text) ==
    LET p == predict_detox(m, text) IN
    IF p.status = "raised"
    THEN [status |-> "raised", exc |-> "RuntimeError", max_evaluated |-> FALSE]
    ELSE AnalyzeScores(p.scores)

----------------------------------------------------------------------------
(* Requests                                                                *)

\* the number of requests in service at once (threads of the host server)
NumThreads == 2

Threads == 1..NumThreads

\* A JSON value that is not an object: kind is "null", "bool", "num", "str",
\* "list" or "object" (an object met as the value of a key, never opened).
JVal(kind, s, n, items) == [kind |-> kind, s |-> s, n |-> n, items |-> items]

JNull == JVal("null", <<>>, 0, <<>>)
JStr(s) == JVal("str", s, 0, <<>>)
JNum(n) == JVal("num", <<>>, n, <<>>)
JBool(b) == JVal("bool", <<>>, IF b THEN 1 ELSE 0, <<>>)
JList(items) == JVal("list", <<>>, 0, items)
JInnerObject == JVal("object", <<>>, 0, <<>>)

\* What request.get_json() meets (line 1271): a JSON value at the top of the
\* body, an object with its keys and the value of its key 'text', or
\* "malformed", a body that does not parse.
Body(v, keys, text) ==
    [kind |-> v.kind, s |-> v.s, n |-> v.n, items |-> v.items,
     keys |-> keys, text |-> text]

JObject(keys, text) == Body(JInnerObject, keys, text)
JTop(v) == Body(v, {}, JNull)
Malformed == Body(JVal("malformed", <<>>, 0, <<>>), {}, JNull)

\* the bodies posted to /analyze/text
TextBodies ==
    << Malformed,
       JTop(JNull),
       JObject({}, JNull),
       JObject({"other"}, JNull),
       JObject({"text"}, JStr(<<>>)),
       JObject({"text"}, JStr(<<" ", "\n">>)),
       JObject({"text"}, JStr(<<" ", "h", "i", "\n">>)),
       JObject({"text", "other"}, JStr(<<"y", "o", "u">>)),
       JObject({"text"}, JNum(5)),
       JObject({"text"}, JNull),
       JTop(JList(<< S_text >>)),
       JTop(JStr(<<"m", "y", " ", "t", "e", "x", "t">>)),
       JTop(JNum(5)) >>

\* an uploaded image, by what the decoder and the OCR engine make of it
ImageLines(lines) == [kind |-> "lines", lines |-> lines, msg |-> <<>>]
ImageFails(kind, msg) == [kind |-> kind, lines |-> <<>>, msg |-> msg]

\* request.files of a request to /analyze/image: whether the field 'image'
\* is there, the file's name and the file
ImageUpload(has_field, filename, content) ==
    [has_field |-> has_field, filename |-> filename, content |-> content]

ImageUploads ==
    << ImageUpload(FALSE, <<>>, ImageLines(<<>>)),
       ImageUpload(TRUE, <<>>, ImageLines(<< <<"h", "i">> >>)),
       ImageUpload(TRUE, <<"a">>, ImageLines(<<>>)),
       ImageUpload(TRUE, <<"a">>, ImageLines(<< <<"h", "i">>, <<"y", "o", "u">> >>)),
       ImageUpload(TRUE, <<"a">>, ImageLines(<< <<"E", "r", "r", "o", "r", "s">> >>)),
       ImageUpload(TRUE, <<"a">>, ImageLines(<< NO_TEXT_DETECTED >>)),
       ImageUpload(TRUE, <<"a">>, ImageFails("undecodable", <<"b", "a", "d">>)) >>

\* an uploaded audio file, by what pydub and the recognizer make of it
AudioSpeech(transcript) == [kind |-> "speech", transcript |-> transcript, msg |-> <<>>]
AudioFails(kind, msg) == [kind |-> kind, transcript |-> <<>>, msg |-> msg]

\* request.files of a request to /analyze/audio
AudioUpload(has_field, filename, content) ==
    [has_field |-> has_field, filename |-> filename, content |-> content]

AudioUploads ==
    << AudioUpload(FALSE, <<>>, AudioSpeech(<<>>)),
       AudioUpload(TRUE, <<>>, AudioSpeech(<<"h", "i">>)),
       AudioUpload(TRUE, <<"c", "l", "i", "p", ".", "t", "x", "t">>, AudioSpeech(<<"h", "i">>)),
       AudioUpload(TRUE, <<"a", ".", "W", "A", "V">>, AudioSpeech(<<"h", "i">>)),
       AudioUpload(TRUE, <<".", "w", "a", "v">>, AudioSpeech(<<"E", "r", "r", "o", "r", "s">>)),
       AudioUpload(TRUE, <<"a", ".", "m", "p", "3">>, AudioFails("unintelligible", <<>>)),
       AudioUpload(TRUE, <<"a", ".", "w", "a", "v">>, AudioFails("request_error", <<"n", "e", "t">>)),
       AudioUpload(TRUE, <<"a", ".", "f", "l", "a", "c">>, AudioFails("undecodable", <<"b", "a", "d">>)) >>

----------------------------------------------------------------------------
(* Responses                                                               *)

EXC_BadRequest ==
    <<"4", "0", "0", " ", "B", "a", "d", " ", "R", "e", "q", "u", "e", "s",
      "t">>

EXC_TypeError ==
    <<"T", "y", "p", "e", "E", "r", "r", "o", "r">>

EXC_AttributeError ==
    <<"A", "t", "t", "r", "i", "b", "u", "t", "e", "E", "r", "r", "o", "r">>

EXC_RuntimeError ==
    <<"R", "u", "n", "t", "i", "m", "e", "E", "r", "r", "o", "r">>

EXC_ValueError ==
    <<"V", "a", "l", "u", "e", "E", "r", "r", "o", "r">>

\* str(e) of the exception a handler caught; the model keeps the name of
\* the exception in the place of the interpreter's message
ExcStr(exc) ==
    CASE exc = "BadRequest" -> EXC_BadRequest
      [] exc = "TypeError" -> EXC_TypeError
      [] exc = "AttributeError" -> EXC_AttributeError
      [] exc = "ValueError" -> EXC_ValueError
      [] OTHER -> EXC_RuntimeError

\* the empty dict
EmptyDict == [k \in {} |-> 0]

NoResponse == [status |-> 0, body |-> EmptyDict]

\* jsonify({'error': msg}), 400
Response400(msg) == [status |-> 400, body |-> [error |-> msg]]

\* the except clause without its status, which leaves Flask's default 200
Response500DefaultStatus(prefix, exc) ==
    [status |-> 200, body |-> [error |-> prefix \o ExcStr(exc)]]

\* the except clause of a route: jsonify({'error': f'... failed: {str(e)}'}), 500
Response500(prefix, exc) == [status |-> 500, body |-> [error |-> prefix \o ExcStr(exc)]]

\* the verdict analyze_toxicity returned, as the dict of lines 75-80
VerdictDict(r) ==
    [detected_categories |-> r.detected_categories,
     overall_score |-> r.overall_score,
     all_scores |-> r.all_scores,
     is_toxic |-> r.is_toxic]

\* toxicity_results['extracted_text'] = extracted_text (lines 1307, 1338)
WithExtractedText(d, extracted_text) ==
    [detected_categories |-> d.detected_categories,
     overall_score |-> d.overall_score,
     all_scores |-> d.all_scores,
     is_toxic |-> d.is_toxic,
     extracted_text |-> extracted_text]

\* lines 1298-1304 and 1329-1335: the response that stands for "nothing to
\* analyse"
ZeroScoreDict(extracted_text) ==
    [extracted_text |-> extracted_text,
     overall_score |-> 0,
     is_toxic |-> FALSE,
     detected_categories |-> EmptyDict,
     all_scores |-> [category \in DETOXIFY_CATEGORIES |-> 0]]

\* jsonify(d) with the default status
Response200(d) == [status |-> 200, body |-> d]

----------------------------------------------------------------------------
(* The routes                                                              *)

\* Python's truth value of a parsed body: `not data` (line 1272)
Falsy(data) ==
    \/ data.kind = "null"
    \/ data.kind \in {"bool", "num"} /\ data.n = 0
    \/ data.kind = "str" /\ data.s = <<>>
    \/ data.kind = "list" /\ data.items = <<>>
    \/ data.kind = "object" /\ data.keys = {}

\* 'text' in data (line 1272), where the operator is defined: a key of a
\* dict, an element of a list, a substring of a str
TextIn(data) ==
    CASE data.kind = "object" -> "text" \in data.keys
      [] data.kind = "list" -> \E i \in 1..Len(data.items) : data.items[i] = S_text
      [] data.kind = "str" -> Contains(S_text, data.s)
      [] OTHER -> FALSE

\* what the validation of a route ends in: a response, an exception for
\* the route's except clause, or the text to go on with
Answer(response) == [outcome |-> "respond", response |-> response, exc |-> "", text |-> <<>>]
Raise(exc) == [outcome |-> "raise", response |-> NoResponse, exc |-> exc, text |-> <<>>]
GoOn(text) == [outcome |-> "go_on", response |-> NoResponse, exc |-> "", text |-> text]

\* lines 1271-1277 without the strip of line 1275
ValidateTextNoStrip(data) ==
    IF data.kind = "malformed" THEN Raise("BadRequest")
    ELSE IF Falsy(data) THEN Answer(Response400(MSG_NoTextProvided))
    ELSE IF data.kind \in {"num", "bool"} THEN Raise("TypeError")
    ELSE IF ~TextIn(data) THEN Answer(Response400(MSG_NoTextProvided))
    ELSE IF data.kind # "object" THEN Raise("TypeError")
    ELSE IF data.text.kind # "str" THEN Raise("AttributeError")
    ELSE LET text == data.text.s IN
         IF text = <<>> THEN Answer(Response400(MSG_TextEmpty)) ELSE GoOn(text)

\* lines 1271-1277 of analyze_text_route.  get_json raises BadRequest on a
\* body that does not parse; `in` raises TypeError on a number or a bool;
\* data['text'] raises TypeError on a list or a str; .strip() raises
\* AttributeError on anything but a str.
ValidateText(data) ==
    IF data.kind = "malformed" THEN Raise("BadRequest")
    ELSE IF Falsy(data) THEN Answer(Response400(MSG_NoTextProvided))
    ELSE IF data.kind \in {"num", "bool"} THEN Raise("TypeError")
    ELSE IF ~TextIn(data) THEN Answer(Response400(MSG_NoTextProvided))
    ELSE IF data.kind # "object" THEN Raise("TypeError")
    ELSE IF data.text.kind # "str" THEN Raise("AttributeError")
    ELSE LET text == Strip(data.text.s) IN
         IF text = <<>> THEN Answer(Response400(MSG_TextEmpty)) ELSE GoOn(text)

\* lines 1288-1290 without the check of the file name of lines 1292-1293
ValidateImageNoName(files) ==
    IF ~files.has_field THEN Answer(Response400(MSG_NoImageFile))
    ELSE GoOn(<<>>)

\* lines 1288-1293 of analyze_image_route
ValidateImage(files) ==
    IF ~files.has_field THEN Answer(Response400(MSG_NoImageFile))
    ELSE IF files.filename = <<>> THEN Answer(Response400(MSG_NoImageSelected))
    ELSE GoOn(<<>>)

\* lines 1316-1324 with the extension check of lines 1323-1324 made before
\* the check of the file name of lines 1320-1321
ValidateAudioExtensionFirst(files) ==
    IF ~files.has_field THEN Answer(Response400(MSG_NoAudioFile))
    ELSE IF ~allowed_audio_file(files.filename)
         THEN Answer(Response400(MSG_InvalidAudioFormat))
    ELSE IF files.filename = <<>> THEN Answer(Response400(MSG_NoAudioSelected))
    ELSE GoOn(<<>>)

\* lines 1316-1321 without the extension check of lines 1323-1324
ValidateAudioNoExtension(files) ==
    IF ~files.has_field THEN Answer(Response400(MSG_NoAudioFile))
    ELSE IF files.filename = <<>> THEN Answer(Response400(MSG_NoAudioSelected))
    ELSE GoOn(<<>>)

\* lines 1316-1324 of analyze_audio_route
ValidateAudio(files) ==
    IF ~files.has_field THEN Answer(Response400(MSG_NoAudioFile))
    ELSE IF files.filename = <<>> THEN Answer(Response400(MSG_NoAudioSelected))
    ELSE IF ~allowed_audio_file(files.filename)
         THEN Answer(Response400(MSG_InvalidAudioFormat))
    ELSE GoOn(<<>>)

\* the test of line 1297 with the sentinel forgotten
ImageShortCircuitPrefixOnly(extracted_text) == StartsWith(extracted_text, S_Error)

\* line 1297
ImageShortCircuit(extracted_text) ==
    StartsWith(extracted_text, S_Error) \/ extracted_text = NO_TEXT_DETECTED

\* line 1328
AudioShortCircuit(extracted_text) ==
    StartsWith(extracted_text, S_Error) \/ extracted_text = COULD_NOT_UNDERSTAND

----------------------------------------------------------------------------
(* The server: NumThreads requests in service, one classifier              *)

\* the route's prefix for its 500 (lines 1283, 1311, 1342)
FailedPrefix(route) ==
    CASE route = "text" -> MSG_TextFailed
      [] route = "image" -> MSG_ImageFailed
      [] OTHER -> MSG_AudioFailed

\* What a thread holds of the request it serves: the route, the state of
\* the handler (pc), the request's input, the handler's locals (text,
\* extracted_text), the response it returns, and, as history, the calls it
\* made, the exception its except clause caught (exc) and the states it
\* went through (trace).
Idle ==
    [route |-> "none", pc |-> "idle", input |-> EmptyDict, text |-> <<>>,
     extracted_text |-> <<>>, response |-> NoResponse, calls |-> <<>>,
     exc |-> "", trace |-> <<>>]

Arrived(route, input) ==
    [route |-> route, pc |-> "Validating", input |-> input, text |-> <<>>,
     extracted_text |-> <<>>, response |-> NoResponse, calls |-> <<>>,
     exc |-> "", trace |-> <<"Validating">>]

\* the handler moves to the state pc
Enter(r, pc) == [r EXCEPT !.pc = pc, !.trace = Append(r.trace, pc)]

\* the except clause of the route: the exception exc ends the request with
\* the route's 500
Caught(r, exc) ==
    [Enter(r, "Responding") EXCEPT
        !.exc = exc,
        !.response = Response500(FailedPrefix(r.route), exc)]

\* the route returns a response
Return(r, response) == [Enter(r, "Responding") EXCEPT !.response = response]

\* the aggregator has not run
NoResult == [status |-> "none"]

aggIdle ==
    /\ raw_scores = EmptyScores
    /\ agg_result = NoResult
    /\ agg_pc = "unused"

\* no adapter is run on its own
fnIdle ==
    /\ fn_name = "none"
    /\ fn_in = EmptyDict
    /\ fn_out = <<>>

Init ==
    /\ detox_model \in 0..(NumModels - 1)
    /\ req = [t \in Threads |-> Idle]
    /\ aggIdle
    /\ fnIdle

\* a request reaches a route and a thread takes it
ReceiveText(t) ==
    /\ req[t].pc = "idle"
    /\ \E i \in 1..Len(TextBodies) :
          req' = [req EXCEPT ![t] = Arrived("text", TextBodies[i])]
    /\ UNCHANGED <<detox_model, raw_scores, agg_result, agg_pc, fn_name, fn_in, fn_out>>

ReceiveImage(t) ==
    /\ req[t].pc = "idle"
    /\ \E i \in 1..Len(ImageUploads) :
          req' = [req EXCEPT ![t] = Arrived("image", ImageUploads[i])]
    /\ UNCHANGED <<detox_model, raw_scores, agg_result, agg_pc, fn_name, fn_in, fn_out>>

ReceiveAudio(t) ==
    /\ req[t].pc = "idle"
    /\ \E i \in 1..Len(AudioUploads) :
          req' = [req EXCEPT ![t] = Arrived("audio", AudioUploads[i])]
    /\ UNCHANGED <<detox_model, raw_scores, agg_result, agg_pc, fn_name, fn_in, fn_out>>

\* the checks a route makes before it calls anything (lines 1271-1277,
\* 1288-1293, 1316-1324), and the except clause for what they raise
Validate(t) ==
    /\ req[t].pc = "Validating"
    /\ \E v \in {CASE req[t].route = "text" -> ValidateText(req[t].input)
                     [] req[t].route = "image" -> ValidateImage(req[t].input)
                     [] OTHER -> ValidateAudio(req[t].input)} :
       LET r == req[t]
       IN req' = [req EXCEPT ![t] =
            CASE v.outcome = "respond" -> Return(r, v.response)
              [] v.outcome = "raise" -> Caught(r, v.exc)
              [] OTHER ->
                   [Enter(r, IF r.route = "text" THEN "Aggregating" ELSE "Extracting")
                       EXCEPT !.text = v.text]]
    /\ UNCHANGED <<detox_model, raw_scores, agg_result, agg_pc, fn_name, fn_in, fn_out>>

\* lines 1295-1304: the adapter, then the test for its sentinel and errors
ExtractImage(t) ==
    /\ req[t].pc = "Extracting"
    /\ req[t].route = "image"
    /\ LET r == req[t]
           outcome == extract_text_from_image(r.input.content)
           extracted_text == outcome.value
           called == [r EXCEPT !.calls = Append(r.calls, "extract_text_from_image")]
       IN req' = [req EXCEPT ![t] =
            IF outcome.raised
            THEN Caught(called, "RuntimeError")
            ELSE IF ImageShortCircuit(extracted_text)
            THEN [Return(called, Response200(ZeroScoreDict(extracted_text)))
                     EXCEPT !.extracted_text = extracted_text]
            ELSE [Enter(called, "Aggregating")
                     EXCEPT !.extracted_text = extracted_text,
                            !.text = extracted_text]]
    /\ UNCHANGED <<detox_model, raw_scores, agg_result, agg_pc, fn_name, fn_in, fn_out>>

\* lines 1326-1335 with a request error of the speech service answered by
\* handling the request again from the start
ExtractAudioRetrying(t) ==
    /\ req[t].pc = "Extracting"
    /\ req[t].route = "audio"
    /\ LET r == req[t]
           outcome == speech_to_text(r.input.content, r.input.filename)
           extracted_text == outcome.value
           called == [r EXCEPT !.calls = Append(r.calls, "speech_to_text")]
       IN req' = [req EXCEPT ![t] =
            IF r.input.content.kind = "request_error"
            THEN Arrived("audio", r.input)
            ELSE IF outcome.raised
            THEN Caught(called, "RuntimeError")
            ELSE IF AudioShortCircuit(extracted_text)
            THEN [Return(called, Response200(ZeroScoreDict(extracted_text)))
                     EXCEPT !.extracted_text = extracted_text]
            ELSE [Enter(called, "Aggregating")
                     EXCEPT !.extracted_text = extracted_text,
                            !.text = extracted_text]]
    /\ UNCHANGED <<detox_model, raw_scores, agg_result, agg_pc, fn_name, fn_in, fn_out>>

\* lines 1326-1335: the adapter, then the test for its sentinel and errors
ExtractAudio(t) ==
    /\ req[t].pc = "Extracting"
    /\ req[t].route = "audio"
    /\ LET r == req[t]
           outcome == speech_to_text(r.input.content, r.input.filename)
           extracted_text == outcome.value
           called == [r EXCEPT !.calls = Append(r.calls, "speech_to_text")]
       IN req' = [req EXCEPT ![t] =
            IF outcome.raised
            THEN Caught(called, "RuntimeError")
            ELSE IF AudioShortCircuit(extracted_text)
            THEN [Return(called, Response200(ZeroScoreDict(extracted_text)))
                     EXCEPT !.extracted_text = extracted_text]
            ELSE [Enter(called, "Aggregating")
                     EXCEPT !.extracted_text = extracted_text,
                            !.text = extracted_text]]
    /\ UNCHANGED <<detox_model, raw_scores, agg_result, agg_pc, fn_name, fn_in, fn_out>>

\* lines 1279-1280, 1306-1308 and 1337-1339: analyze_toxicity on the text,
\* the extracted text merged in for image and audio, and the except clause
\* for what the classifier raises
AnalyzeRequest(t) ==
    /\ req[t].pc = "Aggregating"
    /\ \E toxicity_results \in {analyze_toxicity(detox_model, req[t].text)} :
       LET r == req[t]
           called == [r EXCEPT !.calls = Append(r.calls, "analyze_toxicity")]
       IN req' = [req EXCEPT ![t] =
            IF toxicity_results.status = "raised"
            THEN Caught(called, toxicity_results.exc)
            ELSE IF r.route = "text"
            THEN Return(called, Response200(VerdictDict(toxicity_results)))
            ELSE Return(called, Response200(
                            WithExtractedText(VerdictDict(toxicity_results),
                                              r.extracted_text)))]
    /\ UNCHANGED <<detox_model, raw_scores, agg_result, agg_pc, fn_name, fn_in, fn_out>>

\* the response leaves; nothing of the request is kept
Respond(t) ==
    /\ req[t].pc = "Responding"
    /\ req' = [req EXCEPT ![t] = Idle]
    /\ UNCHANGED <<detox_model, raw_scores, agg_result, agg_pc, fn_name, fn_in, fn_out>>

Next ==
    \E t \in Threads :
        \/ ReceiveText(t)
        \/ ReceiveImage(t)
        \/ ReceiveAudio(t)
        \/ Validate(t)
        \/ ExtractImage(t)
        \/ ExtractAudio(t)
        \/ AnalyzeRequest(t)
        \/ Respond(t)

Spec == Init /\ [][Next]_vars

\* a step of the handler that serves the request of thread t
Handle(t) ==
    \/ Validate(t)
    \/ ExtractImage(t)
    \/ ExtractAudio(t)
    \/ AnalyzeRequest(t)
    \/ Respond(t)

\* the threads whose requests are followed to their end
NumLive == 1
LiveThreads == 1..NumLive

NextLive ==
    \E t \in LiveThreads :
        \/ ReceiveText(t)
        \/ ReceiveImage(t)
        \/ ReceiveAudio(t)
        \/ Validate(t)
        \/ ExtractImage(t)
        \/ ExtractAudio(t)
        \/ AnalyzeRequest(t)
        \/ Respond(t)

\* The routes are straight-line synchronous code with no lock, wait or loop
\* (lines 1268-1342): a thread that has taken a request keeps running its
\* handler, given that every call into a model returns or raises.  Nothing
\* obliges a client to send a request, so the Receive steps are not fair.
SpecLive ==
    Init /\ [][NextLive]_vars /\ \A t \in LiveThreads : WF_vars(Handle(t))

----------------------------------------------------------------------------
(* The aggregator on its own: every RawScores over the grid, and the      *)
(* empty mapping, run through analyze_toxicity once.                       *)

InitAgg ==
    /\ detox_model = 0
    /\ req = [t \in Threads |-> Idle]
    /\ raw_scores \in [DETOXIFY_CATEGORIES -> ScoreGrid] \cup {EmptyScores}
    /\ agg_result = NoResult
    /\ agg_pc = "call"
    /\ fnIdle

Aggregate ==
    /\ agg_pc = "call"
    /\ agg_result' = AnalyzeScores(raw_scores)
    /\ agg_pc' = "returned"
    /\ UNCHANGED <<raw_scores, detox_model, req, fn_name, fn_in, fn_out>>

NextAgg == Aggregate

SpecAgg == InitAgg /\ [][NextAgg]_vars

----------------------------------------------------------------------------
(* The adapters on their own: extract_text_from_image and speech_to_text   *)
(* run once on every upload of a bounded set.                              *)

\* the most lines the OCR engine returns for one image
MaxLines == 2

\* the lines the OCR engine may return
OcrLines ==
    { <<>>, <<"h", "i">>, <<"y", "o", "u">>, <<"a", "\n", "b">>,
      <<"E", "r", "r", "o", "r", "s">>, NO_TEXT_DETECTED }

\* str(e) of what a decoder, the OCR engine or the speech service raises
ExcMessages == { <<>>, <<"b", "a", "d">>, <<"n", "e", "t">> }

\* the transcripts recognize_google may return
Transcripts ==
    { <<>>, <<"h", "i">>, <<"y", "o", "u">>, <<"E", "r", "r", "o", "r", "s">>,
      COULD_NOT_UNDERSTAND }

\* the images extract_text_from_image is run on
ImageDatas ==
    {ImageLines(l) : l \in UNION {[1..k -> OcrLines] : k \in 0..MaxLines}}
        \cup {ImageFails(k, m) : k \in {"undecodable", "ocr_error"}, m \in ExcMessages}

\* the audio files speech_to_text is run on
AudioDatas ==
    {AudioSpeech(tr) : tr \in Transcripts}
        \cup {AudioFails(k, m) :
                 k \in {"unintelligible", "request_error", "undecodable"},
                 m \in ExcMessages}

\* the file names allowed_audio_file is run on: a stem, a dot or none, and
\* what could be an extension
NameStems == { <<>>, <<"a">>, <<"a", ".">>, <<"a", ".", "w", "a", "v">>, <<"m", "p", "3">> }

NameDots == { <<>>, <<".">> }

NameEnds ==
    { <<>>, <<"w", "a", "v">>, <<"W", "A", "V">>, <<"W", "a", "v">>,
      <<"m", "p", "3">>, <<"M", "4", "a">>, <<"f", "l", "a", "c">>,
      <<"A", "A", "C">>, <<"t", "x", "t">>, <<"w", "a">>,
      <<"w", "a", "v", "e">>, <<"o", "g", "g">> }

Filenames == {s \o d \o e : s \in NameStems, d \in NameDots, e \in NameEnds}

InitFn ==
    /\ detox_model = 0
    /\ req = [t \in Threads |-> Idle]
    /\ aggIdle
    /\ fn_out = <<>>
    /\ \/ fn_name = "extract_text_from_image" /\ fn_in \in ImageDatas
       \/ fn_name = "speech_to_text" /\ fn_in \in AudioDatas
       \/ fn_name = "allowed_audio_file" /\ fn_in \in Filenames

\* one call of extract_text_from_image (lines 85-94)
CallExtractText ==
    /\ fn_name = "extract_text_from_image"
    /\ fn_out = <<>>
    /\ fn_out' = <<extract_text_from_image(fn_in)>>
    /\ UNCHANGED <<detox_model, req, raw_scores, agg_result, agg_pc, fn_name, fn_in>>

\* one call of speech_to_text (lines 101-123)
CallSpeechToText ==
    /\ fn_name = "speech_to_text"
    /\ fn_out = <<>>
    /\ fn_out' = <<speech_to_text(fn_in, <<"a", ".", "w", "a", "v">>)>>
    /\ UNCHANGED <<detox_model, req, raw_scores, agg_result, agg_pc, fn_name, fn_in>>

\* one call of allowed_audio_file (lines 97-99)
CallAllowedAudioFile ==
    /\ fn_name = "allowed_audio_file"
    /\ fn_out = <<>>
    /\ fn_out' = <<allowed_audio_file(fn_in)>>
    /\ UNCHANGED <<detox_model, req, raw_scores, agg_result, agg_pc, fn_name, fn_in>>

NextFn == CallExtractText \/ CallSpeechToText \/ CallAllowedAudioFile

SpecFn == InitFn /\ [][NextFn]_vars

----------------------------------------------------------------------------
(* Claims about the aggregator, checked under SpecAgg                      *)

\* the state after analyze_toxicity returned a verdict for six categories
AggReturnedSix ==
    /\ agg_pc = "returned"
    /\ DOMAIN raw_scores = DETOXIFY_CATEGORIES
    /\ agg_result.status = "ok"

\* the categories of the input at or above 0.5, read off the input itself
InputDetected == {c \in DOMAIN raw_scores : raw_scores[c] >= 500}

\* C1: for every RawScores with all six categories and scores in [0,1],
\* analyze_toxicity returns a verdict whose overall_score is in [0,100].
C1_OverallInRange ==
    (agg_pc = "returned" /\ DOMAIN raw_scores = DETOXIFY_CATEGORIES)
        => /\ agg_result.status = "ok"
           /\ agg_result.overall_score >= 0
           /\ agg_result.overall_score <= 100 * 600

\* all six categories at 1.0: the verdict's overall_score is exactly 100
C1_Witness ==
    /\ AggReturnedSix
    /\ \A c \in DETOXIFY_CATEGORIES : raw_scores[c] = 1000
    /\ agg_result.overall_score = 100 * 600

\* C2: with all six categories present, is_toxic is true iff some category
\* scores >= 0.5, which is the same as detected_categories being non-empty.
C2_IsToxicIff ==
    AggReturnedSix
        => /\ agg_result.is_toxic = (\E c \in DETOXIFY_CATEGORIES : raw_scores[c] >= 500)
           /\ agg_result.is_toxic = (DOMAIN agg_result.detected_categories # {})

\* two categories exactly at 0.5, the others below: toxic
C2_Witness ==
    /\ AggReturnedSix
    /\ agg_result.is_toxic
    /\ Cardinality(InputDetected) = 2
    /\ \A c \in DETOXIFY_CATEGORIES : raw_scores[c] <= 500

\* C3: detected_categories is exactly the categories scoring >= 0.5 (0.5
\* itself included), each with its raw score; all_scores is the unchanged
\* RawScores; so detected_categories is a sub-mapping of all_scores.
C3_DetectedExact ==
    AggReturnedSix
        => /\ DOMAIN agg_result.detected_categories = InputDetected
           /\ \A c \in DOMAIN agg_result.detected_categories :
                 agg_result.detected_categories[c] = raw_scores[c]
           /\ agg_result.all_scores = raw_scores
           /\ DOMAIN agg_result.detected_categories \subseteq DOMAIN agg_result.all_scores
           /\ \A c \in DOMAIN agg_result.detected_categories :
                 agg_result.detected_categories[c] = agg_result.all_scores[c]

\* a score of exactly 0.5 next to one of 0.499: the first is detected
C3_Witness ==
    /\ AggReturnedSix
    /\ raw_scores["threat"] = 500
    /\ raw_scores["insult"] = 499
    /\ "threat" \in DOMAIN agg_result.detected_categories
    /\ "insult" \notin DOMAIN agg_result.detected_categories

\* C4: when a category is detected, overall_score is 100 times the mean of
\* the detected scores only, capped at 100 (count * overall = 100 * sum of
\* the detected scores, or the cap); one category at 0.9 and five at 0.1
\* give 90.
C4_MeanOfDetected ==
    (AggReturnedSix /\ InputDetected # {})
        => /\ agg_result.overall_score * Cardinality(InputDetected)
                = Min(60 * SumOver(raw_scores, InputDetected),
                      100 * 600 * Cardinality(InputDetected))
           /\ (/\ Cardinality(InputDetected) = 1
               /\ \E c \in DETOXIFY_CATEGORIES :
                     /\ raw_scores[c] = 900
                     /\ \A d \in DETOXIFY_CATEGORIES \ {c} : raw_scores[d] = 100)
                 => agg_result.overall_score = 90 * 600

\* one category at 0.9, five at 0.1, overall_score 90
C4_Witness ==
    /\ AggReturnedSix
    /\ raw_scores["insult"] = 900
    /\ \A d \in DETOXIFY_CATEGORIES \ {"insult"} : raw_scores[d] = 100
    /\ agg_result.overall_score = 90 * 600

\* C5: when no category reaches 0.5, overall_score is 50 times the largest
\* raw score and is_toxic is false; a maximum of 0.3 gives 15.
C5_FallbackHalfMax ==
    (AggReturnedSix /\ InputDetected = {})
        => /\ \E c \in DETOXIFY_CATEGORIES :
                 /\ \A d \in DETOXIFY_CATEGORIES : raw_scores[d] <= raw_scores[c]
                 /\ agg_result.overall_score = 30 * raw_scores[c]
           /\ ~agg_result.is_toxic
           /\ (\E c \in DETOXIFY_CATEGORIES : raw_scores[c] = 300
               /\ \A d \in DETOXIFY_CATEGORIES : raw_scores[d] <= 300)
                 => agg_result.overall_score = 15 * 600

\* the largest score is 0.3: overall_score 15, not toxic
C5_Witness ==
    /\ AggReturnedSix
    /\ raw_scores["obscene"] = 300
    /\ \A d \in DETOXIFY_CATEGORIES : raw_scores[d] <= 300
    /\ agg_result.overall_score = 15 * 600
    /\ ~agg_result.is_toxic

\* C6: on an empty RawScores the aggregator fails with an InputError,
\* without evaluating max or mean on the empty mapping.
C6_EmptyInputError ==
    (agg_pc = "returned" /\ DOMAIN raw_scores = {})
        => /\ agg_result.status = "raised"
           /\ agg_result.exc = "InputError"
           /\ ~agg_result.max_evaluated

----------------------------------------------------------------------------
(* Claims about the routes, checked under Spec                             *)

\* every character of s is whitespace (the empty string included)
OnlyWhitespace(s) == \A i \in 1..Len(s) : s[i] \in Whitespace

\* a body with no 'text' field, or whose 'text' is an empty or blank string
NoUsableText(data) ==
    \/ data.kind = "null"
    \/ data.kind = "object" /\ "text" \notin data.keys
    \/ data.kind = "object" /\ "text" \in data.keys
          /\ data.text.kind = "str" /\ OnlyWhitespace(data.text.s)

\* the response is a 200 carrying the zero-score, non-toxic dict with the
\* given text in extracted_text
IsZeroScoreResponse(response, extracted_text) ==
    /\ response.status = 200
    /\ DOMAIN response.body =
          {"extracted_text", "overall_score", "is_toxic",
           "detected_categories", "all_scores"}
    /\ response.body.overall_score = 0
    /\ response.body.is_toxic = FALSE
    /\ DOMAIN response.body.detected_categories = {}
    /\ DOMAIN response.body.all_scores = DETOXIFY_CATEGORIES
    /\ \A c \in DETOXIFY_CATEGORIES : response.body.all_scores[c] = 0
    /\ response.body.extracted_text = extracted_text

\* name occurs in the calls a request has made
Called(r, name) == \E i \in 1..Len(r.calls) : r.calls[i] = name

\* C7: POST /analyze/text with no `text` field, or with an empty or blank
\* `text`, is answered 400 with an {"error": ...} body, and the classifier
\* and aggregator are never invoked for that request.
C7_TextMissingOrBlank400 ==
    \A t \in Threads :
        (req[t].route = "text" /\ NoUsableText(req[t].input))
            => /\ req[t].pc \in {"Validating", "Responding"}
               /\ req[t].calls = <<>>
               /\ req[t].pc = "Responding"
                    => /\ req[t].response.status = 400
                       /\ DOMAIN req[t].response.body = {"error"}
                       /\ Len(req[t].response.body.error) > 0

\* one request with a blank text and one with no text field, both answered
C7_Witness ==
    /\ req[1].route = "text" /\ req[1].pc = "Responding"
    /\ req[1].input.kind = "object" /\ "text" \in req[1].input.keys
    /\ req[1].input.text.kind = "str" /\ Len(req[1].input.text.s) = 2
    /\ OnlyWhitespace(req[1].input.text.s)
    /\ req[1].response.status = 400
    /\ req[2].route = "text" /\ req[2].pc = "Responding"
    /\ req[2].input.kind = "object" /\ req[2].input.keys = {"other"}
    /\ req[2].response.status = 400

\* a body that is not an object, or whose 'text' is there but is no string
MalformedText(data) ==
    \/ data.kind \in {"num", "bool", "str", "list"}
    \/ data.kind = "object" /\ "text" \in data.keys /\ data.text.kind # "str"

\* C8: malformed input to POST /analyze/text (a `text` that is not a
\* string, a JSON body that is not an object) is answered 400, never 500.
C8_MalformedText400 ==
    \A t \in Threads :
        (req[t].route = "text" /\ req[t].pc = "Responding"
            /\ MalformedText(req[t].input))
            => req[t].response.status = 400

\* the image adapter's output is its sentinel or one of its error strings
ImageAdapterSignal(r) ==
    /\ r.route = "image"
    /\ Called(r, "extract_text_from_image")
    /\ \/ r.extracted_text = NO_TEXT_DETECTED
       \/ StartsWith(r.extracted_text, ERROR_EXTRACTING_PREFIX)

\* C9: in the image route, whenever the adapter returns the sentinel "No
\* text detected in image" or an error string, the response is a 200 with
\* overall_score 0, is_toxic false, no detected category, six zero scores
\* and the adapter's string verbatim in extracted_text, and the aggregator
\* is never called for that request.
C9_ImageShortCircuit ==
    \A t \in Threads :
        ImageAdapterSignal(req[t])
            => /\ req[t].pc = "Responding"
               /\ IsZeroScoreResponse(req[t].response, req[t].extracted_text)
               /\ req[t].extracted_text =
                     extract_text_from_image(req[t].input.content).value
               /\ ~Called(req[t], "analyze_toxicity")

\* an image with no text and an undecodable upload, both answered
C9_Witness ==
    /\ ImageAdapterSignal(req[1])
    /\ req[1].input.content.kind = "lines" /\ req[1].input.content.lines = <<>>
    /\ req[1].response.body.extracted_text = NO_TEXT_DETECTED
    /\ ImageAdapterSignal(req[2])
    /\ req[2].input.content.kind = "undecodable"
    /\ req[2].response.body.extracted_text =
          ERROR_EXTRACTING_PREFIX \o <<"b", "a", "d">>

\* the audio adapter failed: its output is no transcript
AudioAdapterFailed(r) ==
    /\ r.route = "audio"
    /\ Called(r, "speech_to_text")
    /\ r.input.content.kind \in {"unintelligible", "request_error", "undecodable"}

\* C10: in the audio route every failure of the adapter (the sentinel
\* "Could not understand audio", a speech-service request error, a
\* processing exception) is answered with the zero-score non-toxic response
\* carrying the adapter's string, and no such string reaches the aggregator.
C10_AudioShortCircuit ==
    \A t \in Threads :
        AudioAdapterFailed(req[t])
            => /\ req[t].pc = "Responding"
               /\ IsZeroScoreResponse(req[t].response, req[t].extracted_text)
               /\ ~Called(req[t], "analyze_toxicity")

----------------------------------------------------------------------------
(* Claims about the adapters, checked under SpecFn                         *)

RECURSIVE LineStart(_, _)
\* where line i begins in the lines joined with one separator between them
LineStart(lines, i) ==
    IF i = 1 THEN 1 ELSE LineStart(lines, i - 1) + Len(lines[i - 1]) + 1

\* text is the lines in their order with a newline between neighbours
IsNewlineJoin(text, lines) ==
    /\ Len(text) = LineStart(lines, Len(lines)) + Len(lines[Len(lines)]) - 1
    /\ \A i \in 1..Len(lines) :
          SubSeq(text, LineStart(lines, i), LineStart(lines, i) + Len(lines[i]) - 1)
              = lines[i]
    /\ \A i \in 2..Len(lines) : text[LineStart(lines, i) - 1] = "\n"

\* C19: extract_text_from_image never raises to its caller and returns
\* the OCR lines joined with newlines when there is at least one line, the
\* sentinel "No text detected in image" when there is none, and a string
\* starting with "Error extracting text: " when decoding or OCR raises.
C19_ExtractTextTotal ==
    (fn_name = "extract_text_from_image" /\ Len(fn_out) = 1)
        => /\ ~fn_out[1].raised
           /\ (fn_in.kind = "lines" /\ Len(fn_in.lines) >= 1)
                 => IsNewlineJoin(fn_out[1].value, fn_in.lines)
           /\ (fn_in.kind = "lines" /\ Len(fn_in.lines) = 0)
                 => fn_out[1].value = NO_TEXT_DETECTED
           /\ fn_in.kind \in {"undecodable", "ocr_error"}
                 => /\ StartsWith(fn_out[1].value, ERROR_EXTRACTING_PREFIX)
                    /\ SubSeq(fn_out[1].value, Len(ERROR_EXTRACTING_PREFIX) + 1,
                              Len(fn_out[1].value)) = fn_in.msg

\* the OCR engine raised on a decodable image, and the call returned the
\* error string
C19_Witness ==
    /\ fn_name = "extract_text_from_image"
    /\ fn_in.kind = "ocr_error"
    /\ fn_in.msg = <<"b", "a", "d">>
    /\ Len(fn_out) = 1
    /\ ~fn_out[1].raised
    /\ fn_out[1].value = ERROR_EXTRACTING_PREFIX \o <<"b", "a", "d">>

\* C20: speech_to_text never raises to its caller and returns the
\* transcript, the sentinel "Could not understand audio" when the audio is
\* not understood, or, when the speech service request fails or a decoding
\* or conversion step raises, an error-prefixed string that the handlers'
\* error test (startswith('Error')) recognises.
C20_SpeechToTextTotal ==
    (fn_name = "speech_to_text" /\ Len(fn_out) = 1)
        => /\ ~fn_out[1].raised
           /\ fn_in.kind = "speech" => fn_out[1].value = fn_in.transcript
           /\ fn_in.kind = "unintelligible" => fn_out[1].value = COULD_NOT_UNDERSTAND
           /\ fn_in.kind \in {"request_error", "undecodable"}
                 => StartsWith(fn_out[1].value, S_Error)

----------------------------------------------------------------------------
(* More claims about the routes, checked under Spec                        *)

\* the beginning of the message of line 1324
S_InvalidAudioFormat ==
    <<"I", "n", "v", "a", "l", "i", "d", " ", "a", "u", "d", "i", "o", " ",
      "f", "o", "r", "m", "a", "t">>

\* name ends in a dot followed by an allowed extension, in any case
EndsInAllowedExtension(name) ==
    \E n \in {Len(ext) : ext \in ALLOWED_EXTENSIONS} :
        /\ Len(name) >= n + 1
        /\ name[Len(name) - n] = "."
        /\ Lower(SubSeq(name, Len(name) - n + 1, Len(name))) \in ALLOWED_EXTENSIONS

\* C11: POST /analyze/audio with a file whose name has no allowed
\* extension is answered 400 with an error beginning "Invalid audio
\* format", and neither the audio adapter nor the aggregator is invoked.
C11_BadExtension400 ==
    \A t \in Threads :
        (/\ req[t].route = "audio"
         /\ req[t].input.has_field
         /\ req[t].input.filename # <<>>
         /\ ~EndsInAllowedExtension(req[t].input.filename))
            => /\ req[t].pc \in {"Validating", "Responding"}
               /\ req[t].calls = <<>>
               /\ req[t].pc = "Responding"
                    => /\ req[t].response.status = 400
                       /\ DOMAIN req[t].response.body = {"error"}
                       /\ StartsWith(req[t].response.body.error, S_InvalidAudioFormat)

\* clip.txt was refused
C11_Witness ==
    \E t \in Threads :
        /\ req[t].route = "audio"
        /\ req[t].input.filename = <<"c", "l", "i", "p", ".", "t", "x", "t">>
        /\ req[t].pc = "Responding"
        /\ req[t].response.status = 400
        /\ req[t].response.body.error = MSG_InvalidAudioFormat

\* the adapter of the request returned text it extracted, which is not its
\* sentinel: OCR found lines, or the recognizer returned a transcript
RealExtractedText(r) ==
    \/ /\ r.route = "image"
       /\ Called(r, "extract_text_from_image")
       /\ r.input.content.kind = "lines"
       /\ Len(r.input.content.lines) > 0
       /\ r.extracted_text # NO_TEXT_DETECTED
    \/ /\ r.route = "audio"
       /\ Called(r, "speech_to_text")
       /\ r.input.content.kind = "speech"
       /\ r.extracted_text # COULD_NOT_UNDERSTAND

\* C12: when an image or audio adapter returns real extracted text, the
\* handler's 200 response is the aggregator's verdict for that text, its
\* four fields unchanged, plus extracted_text equal to the adapter's output.
C12_VerdictPlusExtractedText ==
    \A t \in Threads :
        (/\ RealExtractedText(req[t])
         /\ req[t].pc = "Responding"
         /\ req[t].response.status = 200)
            => /\ Called(req[t], "analyze_toxicity")
               /\ LET verdict == analyze_toxicity(detox_model, req[t].extracted_text)
                      body == req[t].response.body
                  IN /\ verdict.status = "ok"
                     /\ DOMAIN body = {"detected_categories", "overall_score",
                                       "all_scores", "is_toxic", "extracted_text"}
                     /\ body.detected_categories = verdict.detected_categories
                     /\ body.overall_score = verdict.overall_score
                     /\ body.all_scores = verdict.all_scores
                     /\ body.is_toxic = verdict.is_toxic
                     /\ body.extracted_text = req[t].extracted_text

\* the request's input makes a check of the text route raise
RaisesInValidation(r) ==
    /\ r.route = "text"
    /\ \/ r.input.kind = "malformed"
       \/ r.input.kind = "num" /\ r.input.n # 0
       \/ r.input.kind = "list" /\ \E i \in 1..Len(r.input.items) : r.input.items[i] = S_text
       \/ r.input.kind = "str" /\ Contains(S_text, r.input.s)
       \/ r.input.kind = "object" /\ "text" \in r.input.keys /\ r.input.text.kind # "str"

\* the classifier raised on the request's text
RaisedInClassifier(r) ==
    /\ Called(r, "analyze_toxicity")
    /\ Predict(detox_model, r.text).status = "raised"

\* the response is the route's 500 with an error string
IsRoute500(r) ==
    /\ r.response.status = 500
    /\ DOMAIN r.response.body = {"error"}
    /\ StartsWith(r.response.body.error, FailedPrefix(r.route))
    /\ Len(r.response.body.error) > Len(FailedPrefix(r.route))

\* no call occurs twice in the calls of a request
NoCallRepeated(r) ==
    \A i, j \in 1..Len(r.calls) : r.calls[i] = r.calls[j] => i = j

\* C13: in each handler an exception raised after entry (by validation, an
\* adapter or the classifier) ends in a 500 whose JSON body has an `error`
\* string; the step that raised is not retried, and nothing of the failed
\* request remains once the response has left.
C13_Exception500 ==
    /\ [](\A t \in Threads :
            /\ (req[t].pc = "Responding"
                  /\ (RaisesInValidation(req[t]) \/ RaisedInClassifier(req[t])))
                  => req[t].exc # ""
            /\ req[t].exc # ""
                  => /\ req[t].pc = "Responding"
                     /\ IsRoute500(req[t])
                     /\ NoCallRepeated(req[t]))
    /\ [][\A t \in Threads :
            req[t].exc # ""
               => \/ req'[t] = req[t]
                  \/ req'[t] = Idle /\ detox_model' = detox_model]_vars

\* one request failed in validation and one in the classifier
C13_Witness ==
    /\ req[1].route = "text" /\ req[1].exc = "AttributeError"
    /\ req[1].calls = <<>>
    /\ req[1].response.status = 500
    /\ req[2].route = "audio" /\ req[2].exc = "RuntimeError"
    /\ req[2].calls = <<"speech_to_text", "analyze_toxicity">>
    /\ req[2].response.status = 500

----------------------------------------------------------------------------
(* Claims about the course of a request, checked under SpecLive and Spec   *)

\* the request of thread t is being answered with a JSON body and one of
\* the three statuses
Answering(t) ==
    /\ req[t].pc = "Responding"
    /\ req[t].response.status \in {200, 400, 500}
    /\ DOMAIN req[t].response.body # {}

\* C14: every request to one of the three routes eventually reaches
\* Responding and produces exactly one JSON response, with status 200, 400
\* or 500, whatever validation finds and whatever the adapter and the
\* classifier do; no path ends without a response.
C14_AlwaysAnswered ==
    /\ \A t \in Threads : (req[t].pc = "Validating") ~> Answering(t)
    /\ [](\A t \in Threads :
            /\ req[t].pc = "Responding" => Answering(t)
            /\ req[t].pc # "Responding" => req[t].response.status = 0)
    /\ [][\A t \in Threads :
            (req[t].pc = "Responding" /\ req'[t] # req[t]) => req'[t] = Idle]_vars

\* a request that went through every state of the audio route and is
\* answered with the verdict on its transcript
C14_Witness ==
    /\ Answering(1)
    /\ req[1].route = "audio"
    /\ req[1].response.status = 200
    /\ req[1].calls = <<"speech_to_text", "analyze_toxicity">>

\* the place of a state in the order of the handlers
Rank(pc) ==
    CASE pc = "Validating" -> 1
      [] pc = "Extracting" -> 2
      [] pc = "Aggregating" -> 3
      [] pc = "Responding" -> 4
      [] OTHER -> 0

\* the states the request went through so far are in the handlers' order,
\* each at most once, from Validating to where the request is now
InOrder(r) ==
    /\ r.trace # <<>>
    /\ r.trace[1] = "Validating"
    /\ r.trace[Len(r.trace)] = r.pc
    /\ \A i \in 1..Len(r.trace) - 1 : Rank(r.trace[i]) < Rank(r.trace[i + 1])

Entered(r, pc) == \E i \in 1..Len(r.trace) : r.trace[i] = pc

\* every validation check of the request's route passes on its input
ValidationPasses(r) ==
    CASE r.route = "text" ->
            /\ r.input.kind = "object"
            /\ "text" \in r.input.keys
            /\ r.input.text.kind = "str"
            /\ ~OnlyWhitespace(r.input.text.s)
      [] r.route = "image" ->
            /\ r.input.has_field
            /\ r.input.filename # <<>>
      [] OTHER ->
            /\ r.input.has_field
            /\ r.input.filename # <<>>
            /\ EndsInAllowedExtension(r.input.filename)

\* the adapter of the request's route
AdapterOf(route) ==
    IF route = "image" THEN "extract_text_from_image" ELSE "speech_to_text"

\* C15: each request moves through its states only in the order Validating,
\* Extracting (image and audio only), Aggregating, Responding; the adapter
\* is invoked only after all validation checks pass, the aggregator only
\* after validation (and, for image and audio, extraction) has completed,
\* no state is revisited, and the text handler never enters Extracting.
C15_StateOrder ==
    \A t \in Threads :
        req[t].pc # "idle" =>
            LET r == req[t] IN
            /\ InOrder(r)
            /\ r.route = "text" => ~Entered(r, "Extracting")
            /\ (Entered(r, "Extracting") \/ Entered(r, "Aggregating"))
                  => ValidationPasses(r)
            /\ r.route # "text"
                  => /\ Called(r, AdapterOf(r.route))
                        => /\ Entered(r, "Extracting")
                           /\ r.calls[1] = AdapterOf(r.route)
                     /\ Entered(r, "Aggregating")
                        => /\ Entered(r, "Extracting")
                           /\ Called(r, AdapterOf(r.route))
            /\ r.route = "text" => (Len(r.calls) > 0 => r.calls = <<"analyze_toxicity">>)
            /\ Called(r, "analyze_toxicity")
                  => /\ Entered(r, "Aggregating")
                     /\ r.calls[Len(r.calls)] = "analyze_toxicity"
            /\ Len(r.calls) <= 2

\* an image request that went through all four states, next to a text
\* request that went from Validating to Aggregating
C15_Witness ==
    \E t, u \in Threads :
        /\ req[t].route = "image"
        /\ req[t].trace = <<"Validating", "Extracting", "Aggregating", "Responding">>
        /\ req[t].calls = <<"extract_text_from_image", "analyze_toxicity">>
        /\ req[u].route = "text"
        /\ req[u].trace = <<"Validating", "Aggregating">>

\* a call of /analyze/text whose body is an object with a string as 'text'
IsTextCall(r) ==
    /\ r.route = "text"
    /\ r.input.kind = "object"
    /\ "text" \in r.input.keys
    /\ r.input.text.kind = "str"

\* two calls of /analyze/text with identical text, both answered
SameTextAnswered(t, u) ==
    /\ req[t].pc = "Responding"
    /\ req[u].pc = "Responding"
    /\ IsTextCall(req[t])
    /\ IsTextCall(req[u])
    /\ req[t].input.text.s = req[u].input.text.s

\* C16: with a classifier that is deterministic for fixed input, two calls
\* to /analyze/text with identical text yield identical verdicts, whatever
\* other requests were served before or between them.
C16_TextIdempotent ==
    \A t, u \in Threads :
        SameTextAnswered(t, u)
            => /\ req[u].response = req[t].response
               /\ req[u].calls = req[t].calls

\* two answered calls with the same text, both scored by the classifier
C16_Witness ==
    \E t, u \in Threads :
        /\ t # u
        /\ SameTextAnswered(t, u)
        /\ req[t].response.status = 200
        /\ req[u].response.status = 200
        /\ req[t].calls = <<"analyze_toxicity">>

\* the response of a route to what analyze_toxicity made of a text
AfterAnalysis(route, toxicity_results, extracted_text) ==
    IF toxicity_results.status = "raised"
    THEN Response500(FailedPrefix(route), toxicity_results.exc)
    ELSE IF route = "text"
    THEN Response200(VerdictDict(toxicity_results))
    ELSE Response200(WithExtractedText(VerdictDict(toxicity_results),
                                       extracted_text))

\* the response of a route to what its adapter made of the upload
AfterExtraction(route, outcome, m) ==
    IF outcome.raised
    THEN Response500(FailedPrefix(route), "RuntimeError")
    ELSE IF (route = "image" /\ ImageShortCircuit(outcome.value))
              \/ (route = "audio" /\ AudioShortCircuit(outcome.value))
    THEN Response200(ZeroScoreDict(outcome.value))
    ELSE AfterAnalysis(route, analyze_toxicity(m, outcome.value), outcome.value)

\* the response of the route to the input when the request is the only one
\* the process ever serves, with the classifier m: the route's code from its
\* first line to its return
HandledAlone(route, input, m) ==
    LET v == CASE route = "text" -> ValidateText(input)
               [] route = "image" -> ValidateImage(input)
               [] OTHER -> ValidateAudio(input)
    IN CASE v.outcome = "respond" -> v.response
         [] v.outcome = "raise" -> Response500(FailedPrefix(route), v.exc)
         [] route = "text" ->
               AfterAnalysis(route, analyze_toxicity(m, v.text), <<>>)
         [] route = "image" ->
               AfterExtraction(route, extract_text_from_image(input.content), m)
         [] OTHER ->
               AfterExtraction(route,
                               speech_to_text(input.content, input.filename), m)

\* C17: when several requests are handled concurrently on separate threads
\* in any interleaving, each request's response equals the response it
\* would get if handled alone: a step of one handler leaves the other
\* requests as they are, and the process-wide classifier is never written.
C17_Isolation ==
    /\ [](\A t \in Threads :
            req[t].pc = "Responding"
               => req[t].response
                     = HandledAlone(req[t].route, req[t].input, detox_model))
    /\ [][/\ detox_model' = detox_model
          /\ \E t \in Threads : \A u \in Threads \ {t} : req'[u] = req[u]]_vars

\* an audio request and an image request answered while both are in
\* service, each with the verdict on its own extracted text
C17_Witness ==
    \E t, u \in Threads :
        /\ req[t].pc = "Responding"
        /\ req[t].route = "audio"
        /\ req[t].calls = <<"speech_to_text", "analyze_toxicity">>
        /\ req[t].response.status = 200
        /\ req[u].pc = "Responding"
        /\ req[u].route = "image"
        /\ req[u].calls = <<"extract_text_from_image", "analyze_toxicity">>
        /\ req[u].response.status = 200
        /\ req[u].extracted_text # req[t].extracted_text

\* the request was answered by the short circuit of its route: the adapter
\* ran, the classifier did not, and nothing was raised
ShortCircuited(r) ==
    /\ r.pc = "Responding"
    /\ r.route \in {"image", "audio"}
    /\ r.calls = <<AdapterOf(r.route)>>
    /\ r.exc = ""

\* C18: the category set consists of exactly six identifiers and is the
\* same on the server (the keys of the zero-score all_scores of the
\* short-circuit responses) and in the client-side table used to redisplay
\* results.
C18_SameCategorySet ==
    /\ Cardinality(DETOXIFY_CATEGORIES) = 6
    /\ FRONTEND_DETOXIFY_CATEGORIES = DETOXIFY_CATEGORIES
    /\ \A t \in Threads :
          ShortCircuited(req[t])
             => /\ DOMAIN req[t].response.body.all_scores
                      = FRONTEND_DETOXIFY_CATEGORIES
                /\ Cardinality(DOMAIN req[t].response.body.all_scores) = 6

\* a short-circuit response of each of the two routes that have one
C18_Witness ==
    \E t, u \in Threads :
        /\ ShortCircuited(req[t]) /\ req[t].route = "image"
        /\ ShortCircuited(req[u]) /\ req[u].route = "audio"
        /\ req[u].response.body.extracted_text = COULD_NOT_UNDERSTAND

----------------------------------------------------------------------------
(* Claims about the order of the validation checks and the extension test  *)

\* the message of the route for a request without its multipart field, and
\* for a file without a name
NoFileMessage(route) ==
    IF route = "image" THEN MSG_NoImageFile ELSE MSG_NoAudioFile

NoNameMessage(route) ==
    IF route = "image" THEN MSG_NoImageSelected ELSE MSG_NoAudioSelected

\* the request is answered 400 with exactly the message msg
Answered400(r, msg) ==
    /\ r.response.status = 400
    /\ DOMAIN r.response.body = {"error"}
    /\ r.response.body.error = msg

\* C21: the image and audio handlers apply their checks in a fixed order
\* and the first failing check alone determines the 400: missing multipart
\* field, then empty filename, then (audio only) disallowed extension; a
\* request failing an earlier check never reports a later check's message.
C21_FirstFailingCheck ==
    \A t \in Threads :
        (req[t].pc = "Responding" /\ req[t].route \in {"image", "audio"})
            => LET r == req[t] IN
               /\ ~r.input.has_field => Answered400(r, NoFileMessage(r.route))
               /\ (r.input.has_field /\ r.input.filename = <<>>)
                     => Answered400(r, NoNameMessage(r.route))
               /\ (/\ r.route = "audio"
                   /\ r.input.has_field
                   /\ r.input.filename # <<>>
                   /\ ~EndsInAllowedExtension(r.input.filename))
                     => Answered400(r, MSG_InvalidAudioFormat)
               /\ r.response.status = 400 => ~ValidationPasses(r)

\* an audio request that fails all three checks and one that fails the
\* last two, each answered with the message of the first check it fails
C21_Witness ==
    \E t, u \in Threads :
        /\ req[t].pc = "Responding" /\ req[t].route = "audio"
        /\ ~req[t].input.has_field
        /\ req[t].input.filename = <<>>
        /\ req[t].response.body.error = MSG_NoAudioFile
        /\ req[u].pc = "Responding" /\ req[u].route = "audio"
        /\ req[u].input.has_field
        /\ req[u].input.filename = <<>>
        /\ ~EndsInAllowedExtension(req[u].input.filename)
        /\ req[u].response.body.error = MSG_NoAudioSelected

\* allowed_audio_file was run on the file name and returned accepted
Decided(name, accepted) ==
    (fn_name = "allowed_audio_file" /\ fn_in = name /\ Len(fn_out) = 1)
        => fn_out[1] = accepted

\* C22: allowed_audio_file accepts a file name if and only if it contains a
\* dot and what follows its last dot is, case aside, one of wav, mp3, m4a,
\* flac, aac; "a.WAV" and ".wav" are accepted, "a.wav.txt", "a." and "wav"
\* are rejected.
C22_AllowedAudioFile ==
    /\ (fn_name = "allowed_audio_file" /\ Len(fn_out) = 1)
          => fn_out[1] = EndsInAllowedExtension(fn_in)
    /\ Decided(<<"a", ".", "W", "A", "V">>, TRUE)
    /\ Decided(<<".", "w", "a", "v">>, TRUE)
    /\ Decided(<<"a", ".", "w", "a", "v", ".", "t", "x", "t">>, FALSE)
    /\ Decided(<<"a", ".">>, FALSE)
    /\ Decided(<<"w", "a", "v">>, FALSE)

\* a.WAV was accepted
C22_Witness ==
    /\ fn_name = "allowed_audio_file"
    /\ fn_in = <<"a", ".", "W", "A", "V">>
    /\ fn_out = <<TRUE>>

----------------------------------------------------------------------------
(* Claims about the shape of overall_score, checked under SpecAgg          *)

\* C23: for scores in [0,1], overall_score is at least 50 whenever is_toxic
\* is true and strictly below 25 whenever is_toxic is false, so that no
\* verdict has an overall_score in [25,50); and the cap at 100 never
\* changes the computed value: the score returned is the mean of the
\* detected scores times 100, or 50 times the largest score, as it is.
C23_ScoreGap ==
    AggReturnedSix
        => /\ agg_result.is_toxic => agg_result.overall_score >= 50 * 600
           /\ ~agg_result.is_toxic => agg_result.overall_score < 25 * 600
           /\ ~(/\ agg_result.overall_score >= 25 * 600
                /\ agg_result.overall_score < 50 * 600)
           /\ InputDetected # {}
                 => agg_result.overall_score * Cardinality(InputDetected)
                       = 60 * SumOver(raw_scores, InputDetected)
           /\ InputDetected = {}
                 => \E c \in DETOXIFY_CATEGORIES :
                       /\ \A d \in DETOXIFY_CATEGORIES : raw_scores[d] <= raw_scores[c]
                       /\ agg_result.overall_score = 30 * raw_scores[c]

\* the two edges of the gap: one category at 0.5 with the others at 0.499
\* gives a toxic verdict of exactly 50
C23_Witness ==
    /\ AggReturnedSix
    /\ raw_scores["threat"] = 500
    /\ \A d \in DETOXIFY_CATEGORIES \ {"threat"} : raw_scores[d] = 499
    /\ agg_result.is_toxic
    /\ agg_result.overall_score = 50 * 600

\* the scores with category c raised to 0.5
RaisedToThreshold(raw, c) == [raw EXCEPT ![c] = 500]

\* category c is just below 0.5 while another category is detected at a
\* score above 0.5
JustBelowNextToDetected(raw, c) ==
    /\ raw[c] = 499
    /\ \E d \in DOMAIN raw \ {c} : raw[d] > 500

\* C24: overall_score is not monotone in the raw scores: raising one
\* category from just below 0.5 to 0.5, all other scores fixed and another
\* category already detected at a higher score, strictly lowers
\* overall_score although no score decreased.
C24_NotMonotone ==
    AggReturnedSix
        => \A c \in DETOXIFY_CATEGORIES :
              JustBelowNextToDetected(raw_scores, c)
                 => /\ AnalyzeScores(RaisedToThreshold(raw_scores, c)).status = "ok"
                    /\ AnalyzeScores(RaisedToThreshold(raw_scores, c)).overall_score
                          < agg_result.overall_score

\* insult at 0.9 alone gives 90; with toxic raised from 0.499 to 0.5 the
\* score is 70
C24_Witness ==
    /\ AggReturnedSix
    /\ raw_scores["insult"] = 900
    /\ raw_scores["toxic"] = 499
    /\ \A d \in DETOXIFY_CATEGORIES \ {"insult", "toxic"} : raw_scores[d] = 0
    /\ agg_result.overall_score = 90 * 600
    /\ AnalyzeScores(RaisedToThreshold(raw_scores, "toxic")).overall_score = 70 * 600

----------------------------------------------------------------------------
(* Claims about extracted text that looks like an adapter error            *)

\* C25: text that an adapter extracted successfully is classified by the
\* aggregator unless it equals the handler's sentinel; successfully
\* extracted image or audio text that merely begins with "Error" is never
\* reported as zero-score non-toxic without being analysed.
C25_ExtractedTextClassified ==
    \A t \in Threads :
        (RealExtractedText(req[t]) /\ req[t].pc = "Responding")
            => /\ Called(req[t], "analyze_toxicity")
               /\ ~ShortCircuited(req[t])
               /\ StartsWith(req[t].extracted_text, S_Error)
                     => ~IsZeroScoreResponse(req[t].response, req[t].extracted_text)

====
